---- MODULE Spec2Model ----
(***************************************************************************)
(* A model of explain-my-config: the command line pipeline of cli.py, the  *)
(* three parsers and the flattener of parser.py, the format detection of    *)
(* utils.py and the explanation engine of explainer.py.                     *)
(*                                                                          *)
(* Python str values are TLA+ strings; the str methods the program calls    *)
(* (upper, lower, strip, split, join, replace, startswith, endswith,        *)
(* format) and the regular expressions it matches are operators that        *)
(* compute character by character what Python computes.                     *)
(***************************************************************************)
EXTENDS Integers, Sequences, FiniteSets, TLC

VARIABLES
  pc,             \* position of the run: which step comes next
  file_path,      \* cli.py main: args.file
  fs,             \* what the file system holds at file_path
  yaml_available, \* parser.py YAML_AVAILABLE
  content,        \* the text read from the file / given to a parser
  file_type,      \* cli.py main: detect_file_type's result
  pairs,          \* the (key, value) pairs a parser returned
  parse_error,    \* the parser's error message, NoneVal when absent
  stages,         \* the stages of main() executed so far, in order
  stdout,         \* what main() printed to standard output
  stderr,         \* what main() printed to the error stream
  exit_code,      \* main()'s return value (or the interpreter's exit status)
  key,            \* explainer input: the configuration key
  value,          \* explainer input: the configuration value
  explanation,    \* get_explanation's result
  data            \* the decoded mapping given to _flatten_dict

vars == <<pc, file_path, fs, yaml_available, content, file_type, pairs,
          parse_error, stages, stdout, stderr, exit_code, key, value,
          explanation, data>>

(***************************************************************************)
(* Bounds of the model.                                                    *)
(***************************************************************************)
MaxSegs == 3    \* segments of a generated configuration key
MaxLines == 3   \* lines of a generated env text
MaxNodes == 3   \* keys (at all depths) of a generated decoded mapping

(***************************************************************************)
(* Python's None and Optional[str]: None is the empty tuple, a present      *)
(* string s is <<s>>.                                                       *)
(***************************************************************************)
NoneVal == <<>>
Some(s) == <<s>>
IsNone(o) == Len(o) = 0

(***************************************************************************)
(* Characters and the str methods.                                         *)
(***************************************************************************)
LowerAlpha == "abcdefghijklmnopqrstuvwxyz"
UpperAlpha == "ABCDEFGHIJKLMNOPQRSTUVWXYZ"
DigitChars == "0123456789"
Whitespace == {" ", "\t", "\n", "\r", "\f"}

CharAt(s, i) == SubSeq(s, i, i)

\* s.find(c) + 1 for a one-character c: 0 when absent
CharIndex(c, s) ==
  IF \E i \in 1..Len(s) : CharAt(s, i) = c
  THEN CHOOSE i \in 1..Len(s) :
         /\ CharAt(s, i) = c
         /\ \A j \in 1..(i-1) : CharAt(s, j) # c
  ELSE 0

CharsOf(s) == {CharAt(s, i) : i \in 1..Len(s)}
LowerSet == CharsOf(LowerAlpha)
UpperSet == CharsOf(UpperAlpha)
DigitSet == CharsOf(DigitChars)
ToUpperTable == [c \in LowerSet |-> CharAt(UpperAlpha, CharIndex(c, LowerAlpha))]
ToLowerTable == [c \in UpperSet |-> CharAt(LowerAlpha, CharIndex(c, UpperAlpha))]

IsLower(c) == c \in LowerSet
IsUpper(c) == c \in UpperSet
IsAlpha(c) == IsLower(c) \/ IsUpper(c)
IsDigit(c) == c \in DigitSet

UpperChar(c) == IF IsLower(c) THEN ToUpperTable[c] ELSE c
LowerChar(c) == IF IsUpper(c) THEN ToLowerTable[c] ELSE c

RECURSIVE str_upper(_)
str_upper(s) == IF Len(s) = 0 THEN "" ELSE UpperChar(Head(s)) \o str_upper(Tail(s))

RECURSIVE str_lower(_)
str_lower(s) == IF Len(s) = 0 THEN "" ELSE LowerChar(Head(s)) \o str_lower(Tail(s))

startswith(s, p) == Len(s) >= Len(p) /\ SubSeq(s, 1, Len(p)) = p
endswith(s, p) == Len(s) >= Len(p) /\ SubSeq(s, Len(s) - Len(p) + 1, Len(s)) = p

\* s.find(sub) + 1: the first position where sub occurs, 0 when it does not
str_find(s, sub) ==
  LET Hits == {i \in 1..(Len(s) - Len(sub) + 1) : SubSeq(s, i, i + Len(sub) - 1) = sub}
  IN IF Hits = {} THEN 0 ELSE CHOOSE i \in Hits : \A j \in Hits : i <= j

\* s.rfind(c) + 1 for a one-character c
str_rfind(s, c) ==
  LET Hits == {i \in 1..Len(s) : CharAt(s, i) = c}
  IN IF Hits = {} THEN 0 ELSE CHOOSE i \in Hits : \A j \in Hits : i >= j

contains(s, sub) == str_find(s, sub) > 0

RECURSIVE str_lstrip(_)
str_lstrip(s) ==
  IF Len(s) > 0 /\ Head(s) \in Whitespace THEN str_lstrip(Tail(s)) ELSE s

RECURSIVE str_rstrip(_)
str_rstrip(s) ==
  IF Len(s) > 0 /\ CharAt(s, Len(s)) \in Whitespace
  THEN str_rstrip(SubSeq(s, 1, Len(s) - 1)) ELSE s

str_strip(s) == str_rstrip(str_lstrip(s))

\* s.split(sep): the list of the parts of s between occurrences of sep
RECURSIVE str_split(_, _)
str_split(s, sep) ==
  LET i == str_find(s, sep)
  IN IF i = 0 THEN <<s>>
     ELSE <<SubSeq(s, 1, i - 1)>> \o str_split(SubSeq(s, i + Len(sep), Len(s)), sep)

\* sep.join(parts)
RECURSIVE str_join(_, _)
str_join(sep, parts) ==
  IF Len(parts) = 0 THEN ""
  ELSE IF Len(parts) = 1 THEN parts[1]
  ELSE parts[1] \o sep \o str_join(sep, Tail(parts))

\* s.replace(old, new) for a one-character old
RECURSIVE str_replace(_, _, _)
str_replace(s, old, new) ==
  IF Len(s) = 0 THEN ""
  ELSE (IF Head(s) = old THEN new ELSE Head(s)) \o str_replace(Tail(s), old, new)

\* template.format(arg): every "{}" slot of the template replaced by arg
RECURSIVE str_format(_, _)
str_format(template, arg) ==
  IF Len(template) = 0 THEN ""
  ELSE IF startswith(template, "{}")
       THEN arg \o str_format(SubSeq(template, 3, Len(template)), arg)
       ELSE Head(template) \o str_format(Tail(template), arg)

\* [w for w in words if w]
RECURSIVE NonEmpty(_)
NonEmpty(words) ==
  IF Len(words) = 0 THEN <<>>
  ELSE (IF Len(words[1]) = 0 THEN <<>> ELSE <<words[1]>>) \o NonEmpty(Tail(words))

\* re: "$" matches at the end of the string and just before a final newline
AtDollar(s) == Len(s) = 0 \/ s = "\n"

(***************************************************************************)
(* explainer.py: the reference tables, in declaration order.               *)
(***************************************************************************)
KNOWN_KEYS ==
  <<
    <<"DB_POOL_SIZE", "Controls how many database connections can exist at the same time.">>,
    <<"DB_HOST", "The hostname or IP address of the database server.">>,
    <<"DB_PORT", "The network port used to connect to the database.">>,
    <<"DB_NAME", "The name of the database to connect to.">>,
    <<"DB_USER", "The username for database authentication.">>,
    <<"DB_PASSWORD", "The password for database authentication.">>,
    <<"DATABASE_URL", "The full connection string for the database.">>,
    <<"DATABASE_HOST", "The hostname or IP address of the database server.">>,
    <<"DATABASE_PORT", "The network port used to connect to the database.">>,
    <<"DATABASE_NAME", "The name of the database to connect to.">>,
    <<"PORT", "The network port the application listens on.">>,
    <<"HOST", "The hostname or IP address the server binds to.">>,
    <<"BIND_ADDRESS", "The IP address the server binds to for incoming connections.">>,
    <<"LISTEN_ADDRESS", "The address the server listens on for incoming connections.">>,
    <<"DEBUG", "Enables or disables debug mode for development.">>,
    <<"NODE_ENV", "The environment mode (development, production, test).">>,
    <<"ENVIRONMENT", "The current running environment (dev, staging, production).">>,
    <<"ENV", "The current running environment.">>,
    <<"APP_ENV", "The application environment setting.">>,
    <<"FLASK_ENV", "The Flask framework environment mode.">>,
    <<"RAILS_ENV", "The Ruby on Rails environment mode.">>,
    <<"DJANGO_DEBUG", "Enables or disables Django debug mode.">>,
    <<"LOG_LEVEL", "Controls how much detail is written to logs (debug, info, warn, error).">>,
    <<"LOG_FILE", "The file path where logs are written.">>,
    <<"LOG_FORMAT", "The format pattern for log messages.">>,
    <<"LOGGING_LEVEL", "Controls the verbosity of application logging.">>,
    <<"SECRET_KEY", "A secret value used for encryption and session security.">>,
    <<"API_KEY", "A key used to authenticate API requests.">>,
    <<"JWT_SECRET", "The secret key used to sign JSON Web Tokens.">>,
    <<"AUTH_SECRET", "A secret value used for authentication purposes.">>,
    <<"ENCRYPTION_KEY", "The key used for encrypting sensitive data.">>,
    <<"PASSWORD_SALT", "A value added to passwords before hashing for security.">>,
    <<"TIMEOUT", "The maximum time to wait before canceling an operation.">>,
    <<"REQUEST_TIMEOUT", "The maximum time to wait for an HTTP request to complete.">>,
    <<"CONNECTION_TIMEOUT", "The maximum time to wait when establishing a connection.">>,
    <<"READ_TIMEOUT", "The maximum time to wait for data to be received.">>,
    <<"MAX_CONNECTIONS", "The maximum number of simultaneous connections allowed.">>,
    <<"MAX_RETRIES", "The maximum number of times to retry a failed operation.">>,
    <<"RATE_LIMIT", "The maximum number of requests allowed in a time period.">>,
    <<"CACHE_TTL", "How long cached data remains valid (in seconds).">>,
    <<"CACHE_ENABLED", "Enables or disables the caching system.">>,
    <<"CACHE_SIZE", "The maximum size of the cache in memory.">>,
    <<"REDIS_URL", "The connection URL for Redis cache server.">>,
    <<"MEMCACHED_SERVERS", "The list of Memcached server addresses.">>,
    <<"SMTP_HOST", "The hostname of the email server.">>,
    <<"SMTP_PORT", "The port used to connect to the email server.">>,
    <<"SMTP_USER", "The username for email server authentication.">>,
    <<"SMTP_PASSWORD", "The password for email server authentication.">>,
    <<"EMAIL_FROM", "The default sender email address.">>,
    <<"MAIL_SERVER", "The hostname of the mail server.">>,
    <<"API_URL", "The base URL for API endpoints.">>,
    <<"BASE_URL", "The root URL of the application.">>,
    <<"CALLBACK_URL", "The URL to redirect to after an operation completes.">>,
    <<"WEBHOOK_URL", "The URL that receives webhook notifications.">>,
    <<"FRONTEND_URL", "The URL of the frontend application.">>,
    <<"BACKEND_URL", "The URL of the backend API.">>,
    <<"FEATURE_FLAGS", "Toggles for enabling or disabling specific features.">>,
    <<"ENABLE_FEATURE", "Enables or disables a specific feature.">>,
    <<"EXPERIMENTAL", "Enables or disables experimental features.">>,
    <<"TZ", "The timezone for the application.">>,
    <<"TIMEZONE", "The timezone setting for date/time operations.">>,
    <<"LOCALE", "The language and region setting.">>,
    <<"LANG", "The language setting for the application.">>,
    <<"VERSION", "The version number of the application.">>,
    <<"APP_NAME", "The name of the application.">>,
    <<"APP_VERSION", "The version number of the application.">>
  >>

KEY_SUFFIX_HINTS ==
  <<
    <<"_URL", "The URL endpoint for {}.">>,
    <<"_URI", "The URI for {}.">>,
    <<"_HOST", "The hostname or IP address for {}.">>,
    <<"_PORT", "The network port for {}.">>,
    <<"_KEY", "The authentication or API key for {}.">>,
    <<"_SECRET", "A secret value for {} (keep this private).">>,
    <<"_TOKEN", "An access token for {}.">>,
    <<"_PASSWORD", "The password for {}.">>,
    <<"_USER", "The username for {}.">>,
    <<"_USERNAME", "The username for {}.">>,
    <<"_NAME", "The name of {}.">>,
    <<"_PATH", "The file or directory path for {}.">>,
    <<"_DIR", "The directory path for {}.">>,
    <<"_FILE", "The file path for {}.">>,
    <<"_SIZE", "The size setting for {}.">>,
    <<"_LIMIT", "The maximum limit for {}.">>,
    <<"_COUNT", "The number of items for {}.">>,
    <<"_TIMEOUT", "The timeout duration (in seconds) for {}.">>,
    <<"_TTL", "The time-to-live duration for {}.">>,
    <<"_ENABLED", "Enables or disables {}.">>,
    <<"_DISABLED", "Disables {}.">>,
    <<"_MODE", "The operating mode for {}.">>,
    <<"_LEVEL", "The level setting for {}.">>,
    <<"_MAX", "The maximum value for {}.">>,
    <<"_MIN", "The minimum value for {}.">>,
    <<"_ID", "The unique identifier for {}.">>,
    <<"_VERSION", "The version of {}.">>
  >>

\* the dict KNOWN_KEYS: `k in KNOWN_KEYS` and `KNOWN_KEYS[k]`
KnownDict ==
  [k \in {KNOWN_KEYS[i][1] : i \in DOMAIN KNOWN_KEYS} |->
     KNOWN_KEYS[CHOOSE i \in DOMAIN KNOWN_KEYS : KNOWN_KEYS[i][1] = k][2]]
InKnownKeys(k) == k \in DOMAIN KnownDict
KnownText(k) == KnownDict[k]

(***************************************************************************)
(* explainer.py VALUE_PATTERNS, as re.match applies them.                  *)
(***************************************************************************)
\* r'^https?://' with re.IGNORECASE
MatchUrl(v) == startswith(str_lower(v), "http://") \/ startswith(str_lower(v), "https://")

\* r'^[^@]+@[^@]+\.[^@]+$': one '@', text before it, and after it a '.' with
\* text on both sides ([^@] matches every other character, newline included)
MatchEmail(v) ==
  LET at == CharIndex("@", v)
  IN /\ at > 1
     /\ \A i \in 1..Len(v) : CharAt(v, i) = "@" => i = at
     /\ \E j \in (at + 2)..(Len(v) - 1) : CharAt(v, j) = "."

\* r'^(true|yes|on|1|enabled)$'
MatchBooleanTrue(v) ==
  \E w \in {"true", "yes", "on", "1", "enabled"} : startswith(v, w) /\ AtDollar(SubSeq(v, Len(w) + 1, Len(v)))

\* r'^(false|no|off|0|disabled)$'
MatchBooleanFalse(v) ==
  \E w \in {"false", "no", "off", "0", "disabled"} : startswith(v, w) /\ AtDollar(SubSeq(v, Len(w) + 1, Len(v)))

\* the length of the longest run of digits at the start of s (\d+ is greedy,
\* and nothing after it in the pattern can match a digit)
RECURSIVE DigitRun(_)
DigitRun(s) == IF Len(s) > 0 /\ IsDigit(Head(s)) THEN 1 + DigitRun(Tail(s)) ELSE 0

\* r'^-?\d+(\.\d+)?$'
MatchNumber(v) ==
  LET body == IF startswith(v, "-") THEN Tail(v) ELSE v
      n == DigitRun(body)
      rest == SubSeq(body, n + 1, Len(body))
      frac == IF startswith(rest, ".") THEN Tail(rest) ELSE ""
      m == DigitRun(frac)
  IN /\ n > 0
     /\ \/ AtDollar(rest)
        \/ /\ startswith(rest, ".")
           /\ m > 0
           /\ AtDollar(SubSeq(frac, m + 1, Len(frac)))

\* r'^(/|\.\.?/|[A-Za-z]:\\)'
MatchPath(v) ==
  \/ startswith(v, "/")
  \/ startswith(v, "./")
  \/ startswith(v, "../")
  \/ Len(v) >= 3 /\ IsAlpha(CharAt(v, 1)) /\ SubSeq(v, 2, 3) = ":\\"

(***************************************************************************)
(* explainer.py: the explanation engine.                                   *)
(***************************************************************************)
\* _make_readable without the filter that drops the empty words
_make_readable_keep_empty(k) == str_join(" ", str_split(str_lower(k), "_"))

_make_readable(k) == str_join(" ", NonEmpty(str_split(str_lower(k), "_")))

\* _analyze_value with the numeric test moved before the boolean tests
_analyze_value_number_first(v) ==
  LET value_lower == str_strip(str_lower(v))
  IN IF MatchUrl(v) THEN Some("appears to be a URL")
     ELSE IF MatchEmail(v) THEN Some("appears to be an email address")
     ELSE IF MatchNumber(v) THEN Some("numeric value")
     ELSE IF MatchBooleanTrue(value_lower) THEN Some("enables this feature")
     ELSE IF MatchBooleanFalse(value_lower) THEN Some("disables this feature")
     ELSE IF MatchPath(v) THEN Some("appears to be a file path")
     ELSE NoneVal

_analyze_value(v) ==
  LET value_lower == str_strip(str_lower(v))
  IN IF MatchUrl(v) THEN Some("appears to be a URL")
     ELSE IF MatchEmail(v) THEN Some("appears to be an email address")
     ELSE IF MatchBooleanTrue(value_lower) THEN Some("enables this feature")
     ELSE IF MatchBooleanFalse(value_lower) THEN Some("disables this feature")
     ELSE IF MatchNumber(v) THEN Some("numeric value")
     ELSE IF MatchPath(v) THEN Some("appears to be a file path")
     ELSE NoneVal

\* the suffixes of KEY_SUFFIX_HINTS the key ends with, as table positions
MatchingSuffixes(k) ==
  {i \in DOMAIN KEY_SUFFIX_HINTS : endswith(k, KEY_SUFFIX_HINTS[i][1])}

generate_fallback(k, v) ==
  LET normalized_key == str_upper(k)
      hits == MatchingSuffixes(normalized_key)
  IN IF hits # {}
     THEN LET i == CHOOSE i \in hits : \A j \in hits : i <= j
              suffix == KEY_SUFFIX_HINTS[i][1]
              template == KEY_SUFFIX_HINTS[i][2]
              prefix == SubSeq(normalized_key, 1, Len(normalized_key) - Len(suffix))
          IN str_format(template, _make_readable(prefix))
     ELSE LET value_hint == _analyze_value(v)
              readable_key == _make_readable(normalized_key)
          IN IF ~IsNone(value_hint)
             THEN "Sets the " \o str_lower(readable_key) \o " (" \o value_hint[1] \o ")."
             ELSE "Configuration setting for " \o str_lower(readable_key) \o "."

\* get_explanation without the lookup of the dot-bridged key
get_explanation_no_bridge(k, v) ==
  LET normalized_key == str_upper(k)
  IN IF InKnownKeys(normalized_key) THEN KnownText(normalized_key)
     ELSE generate_fallback(k, v)

get_explanation(k, v) ==
  LET normalized_key == str_upper(k)
      flat_key == str_replace(normalized_key, ".", "_")
  IN IF InKnownKeys(normalized_key) THEN KnownText(normalized_key)
     ELSE IF InKnownKeys(flat_key) THEN KnownText(flat_key)
     ELSE generate_fallback(k, v)

(***************************************************************************)
(* The inputs of the explanation engine: keys built from a few words        *)
(* joined by '_' and '.', and the keys the documentation names.             *)
(***************************************************************************)
KeyWords == {"", "db", "HOST", "Timeout"}
KeySeps == {"_", "."}

RECURSIVE KeysOf(_)
KeysOf(n) ==
  IF n = 0 THEN {}
  ELSE KeyWords \cup {w \o s \o k : w \in KeyWords, s \in KeySeps, k \in KeysOf(n - 1)}

ExampleKeys ==
  {"PORT", "database.host", "DATABASE_HOST", "SMTP_HOST", "MY_SERVICE_TIMEOUT",
   "RANDOM_THING", "db.pool_size", "service.timeout", "CACHE_TTL", "API_ENDPOINT",
   "My_thing", "random.thing", "x_url_id"}

ExplainKeys == KeysOf(MaxSegs) \cup ExampleKeys

ExplainValues ==
  {"x", "", "30", "https://x.com", "HTTP://A", "a@b.c", "a@b", "true", "1", "0",
   " Yes ", "off", "42", "-3.5", "4.", "42\n", "/etc/x", "../a", "C:\\x"}

(***************************************************************************)
(* Variables a specification does not use keep these values.               *)
(***************************************************************************)
MainIdle ==
  /\ file_path = "" /\ fs = [kind |-> "missing"] /\ yaml_available = TRUE /\ content = ""
  /\ file_type = NoneVal /\ pairs = <<>> /\ parse_error = NoneVal
  /\ stages = <<>> /\ stdout = <<>> /\ stderr = <<>> /\ exit_code = NoneVal
ExplainIdle == key = "" /\ value = "" /\ explanation = NoneVal
FlattenIdle == data = <<>>

(***************************************************************************)
(* SpecExplain: get_explanation applied to one key and one value.          *)
(***************************************************************************)
InitExplain ==
  /\ pc = "explain"
  /\ key \in ExplainKeys
  /\ value \in ExplainValues
  /\ explanation = NoneVal
  /\ MainIdle /\ FlattenIdle

Explain ==
  /\ pc = "explain"
  /\ explanation' = Some(get_explanation(key, value))
  /\ pc' = "explained"
  /\ UNCHANGED <<file_path, fs, yaml_available, content, file_type, pairs,
                 parse_error, stages, stdout, stderr, exit_code, key, value, data>>

NextExplain == Explain

SpecExplain == InitExplain /\ [][NextExplain]_vars
(***************************************************************************)
(* parser.py: the environment-style parser.                                *)
(***************************************************************************)
\* _strip_quotes with value[1:] in place of value[1:-1]
_strip_quotes_off_by_one(v) ==
  LET s == str_strip(v)
  IN IF startswith(s, "\"") /\ endswith(s, "\"") /\ Len(s) >= 2 THEN SubSeq(s, 2, Len(s))
     ELSE IF startswith(s, "'") /\ endswith(s, "'") /\ Len(s) >= 2 THEN SubSeq(s, 2, Len(s))
     ELSE s

_strip_quotes(v) ==
  LET s == str_strip(v)
  IN IF startswith(s, "\"") /\ endswith(s, "\"") /\ Len(s) >= 2 THEN SubSeq(s, 2, Len(s) - 1)
     ELSE IF startswith(s, "'") /\ endswith(s, "'") /\ Len(s) >= 2 THEN SubSeq(s, 2, Len(s) - 1)
     ELSE s

\* the length of the longest run of [A-Za-z0-9_] at the start of s
RECURSIVE IdentRun(_)
IdentRun(s) ==
  IF Len(s) > 0 /\ (IsAlpha(Head(s)) \/ IsDigit(Head(s)) \/ Head(s) = "_")
  THEN 1 + IdentRun(Tail(s)) ELSE 0

\* re.match(r'^([A-Za-z_][A-Za-z0-9_]*)\s*=\s*(.*)$', line) on a stripped
\* line without newline: None, or the groups (key, value). The key run and
\* the \s* runs are greedy and what follows each cannot match their characters,
\* so the match is the only one.
EnvMatch(line) ==
  IF Len(line) = 0 \/ ~(IsAlpha(Head(line)) \/ Head(line) = "_") THEN NoneVal
  ELSE LET n == 1 + IdentRun(Tail(line))
           after == str_lstrip(SubSeq(line, n + 1, Len(line)))
       IN IF ~startswith(after, "=") THEN NoneVal
          ELSE Some(<<SubSeq(line, 1, n), str_lstrip(Tail(after))>>)

\* the body of parse_env's loop without the test for a URL
EnvLine_cut_urls(raw) ==
  LET line == str_strip(raw)
  IN IF Len(line) = 0 THEN <<>>
     ELSE IF startswith(line, "#") THEN <<>>
     ELSE LET m == EnvMatch(line)
          IN IF IsNone(m) THEN <<>>
             ELSE LET k == m[1][1]
                      quoted == _strip_quotes(m[1][2])
                      v == IF contains(quoted, " #")
                           THEN str_strip(str_split(quoted, " #")[1])
                           ELSE quoted
                  IN << <<k, v>> >>

\* the body of parse_env's loop: the pairs one line appends
EnvLine(raw) ==
  LET line == str_strip(raw)
  IN IF Len(line) = 0 THEN <<>>
     ELSE IF startswith(line, "#") THEN <<>>
     ELSE LET m == EnvMatch(line)
          IN IF IsNone(m) THEN <<>>
             ELSE LET k == m[1][1]
                      quoted == _strip_quotes(m[1][2])
                      v == IF /\ contains(quoted, " #")
                              /\ ~(startswith(quoted, "http://") \/ startswith(quoted, "https://"))
                           THEN str_strip(str_split(quoted, " #")[1])
                           ELSE quoted
                  IN << <<k, v>> >>

RECURSIVE EnvLoop(_)
EnvLoop(lines) ==
  IF Len(lines) = 0 THEN <<>> ELSE EnvLine(lines[1]) \o EnvLoop(Tail(lines))

\* pairs a dict would hold: a later pair of a key replaces the earlier one
RECURSIVE DedupPairs(_)
DedupPairs(ps) ==
  IF Len(ps) = 0 THEN <<>>
  ELSE LET n == Len(ps)
           init == DedupPairs(SubSeq(ps, 1, n - 1))
       IN IF \E i \in 1..Len(init) : init[i][1] = ps[n][1]
          THEN [i \in 1..Len(init) |-> IF init[i][1] = ps[n][1] THEN ps[n] ELSE init[i]]
          ELSE Append(init, ps[n])

\* parse_env collecting the pairs in a dict in place of a list
parse_env_dict(text) == <<DedupPairs(EnvLoop(str_split(text, "\n"))), NoneVal>>

\* parse_env: (pairs, error)
parse_env(text) == <<EnvLoop(str_split(text, "\n")), NoneVal>>

(***************************************************************************)
(* The inputs of parse_env: texts of up to MaxLines lines, and the text    *)
(* of the documentation.                                                   *)
(***************************************************************************)
EnvLines ==
  {"", "# comment", "PORT=8080", "K=v # c", "  NAME = \"my app\"  ", "K='v'",
   "K=\"a # b\"", "U=https://x.y/p #frag", "not a pair", "1X=2", "K=",
   "K=\"\"q\"\"", "K=\" s \"", "_k9 =\tx=y", "U=\"http://h/p #f\"",
   "K=\" http://x #c\""}

RECURSIVE EnvTextsOf(_)
EnvTextsOf(n) ==
  IF n = 1 THEN EnvLines
  ELSE EnvTextsOf(n - 1) \cup {l \o "\n" \o t : l \in EnvLines, t \in EnvTextsOf(n - 1)}

EnvExample == "PORT=8080\nDEBUG=true\n# comment\n\nAPI_URL=https://api.example.com"

EnvTexts == EnvTextsOf(MaxLines) \cup {EnvExample, "K=\"x\" #c\nK=\"\nK=' #x'\nK=#c"}

(***************************************************************************)
(* SpecEnv: parse_env applied to one text.                                 *)
(***************************************************************************)
InitEnv ==
  /\ pc = "env"
  /\ content \in EnvTexts
  /\ file_path = "" /\ fs = [kind |-> "missing"] /\ yaml_available = TRUE
  /\ file_type = NoneVal /\ pairs = <<>> /\ parse_error = NoneVal
  /\ stages = <<>> /\ stdout = <<>> /\ stderr = <<>> /\ exit_code = NoneVal
  /\ ExplainIdle /\ FlattenIdle

ParseEnv ==
  /\ pc = "env"
  /\ pairs' = parse_env(content)[1]
  /\ parse_error' = parse_env(content)[2]
  /\ pc' = "env_parsed"
  /\ UNCHANGED <<file_path, fs, yaml_available, content, file_type, stages,
                 stdout, stderr, exit_code, key, value, explanation, data>>

NextEnv == ParseEnv

SpecEnv == InitEnv /\ [][NextEnv]_vars

(***************************************************************************)
(* The Python objects json.loads and yaml.safe_load build, tagged by type. *)
(* A dict is the sequence of its (key, value) entries in iteration order.  *)
(***************************************************************************)
PStr(s) == [t |-> "str", s |-> s]
PInt(i) == [t |-> "int", i |-> i]
PBool(b) == [t |-> "bool", b |-> b]
PNone == [t |-> "none"]
PList(items) == [t |-> "list", items |-> items]
PDict(entries) == [t |-> "dict", entries |-> entries]

\* bool(x), as `if prefix` evaluates it
Truthy(x) ==
  CASE x.t = "str" -> Len(x.s) > 0
    [] x.t = "int" -> x.i # 0
    [] x.t = "bool" -> x.b
    [] x.t = "none" -> FALSE
    [] x.t = "list" -> Len(x.items) > 0
    [] x.t = "dict" -> Len(x.entries) > 0

\* str(n) of a natural number
RECURSIVE NatStr(_)
NatStr(n) ==
  IF n < 10 THEN CharAt(DigitChars, n + 1)
  ELSE NatStr(n \div 10) \o CharAt(DigitChars, (n % 10) + 1)

IntStr(n) == IF n < 0 THEN "-" \o NatStr(0 - n) ELSE NatStr(n)

\* the body of repr(s): backslash, the quote in use and the control
\* characters escaped
RECURSIVE ReprBody(_, _)
ReprBody(s, quote) ==
  IF Len(s) = 0 THEN ""
  ELSE LET c == Head(s)
           e == CASE c = "\\" -> "\\\\"
                  [] c = quote -> "\\" \o quote
                  [] c = "\n" -> "\\n"
                  [] c = "\t" -> "\\t"
                  [] c = "\r" -> "\\r"
                  [] OTHER -> c
       IN e \o ReprBody(Tail(s), quote)

\* repr(s): single quotes, double quotes when s holds ' and no "
StrRepr(s) ==
  IF contains(s, "'") /\ ~contains(s, "\"")
  THEN "\"" \o ReprBody(s, "\"") \o "\""
  ELSE "'" \o ReprBody(s, "'") \o "'"

RECURSIVE py_repr(_), ReprItems(_), ReprEntries(_)
\* repr(x)
py_repr(x) ==
  CASE x.t = "str" -> StrRepr(x.s)
    [] x.t = "int" -> IntStr(x.i)
    [] x.t = "bool" -> IF x.b THEN "True" ELSE "False"
    [] x.t = "none" -> "None"
    [] x.t = "list" -> "[" \o ReprItems(x.items) \o "]"
    [] x.t = "dict" -> "{" \o ReprEntries(x.entries) \o "}"

ReprItems(items) ==
  IF Len(items) = 0 THEN ""
  ELSE IF Len(items) = 1 THEN py_repr(items[1])
  ELSE py_repr(items[1]) \o ", " \o ReprItems(Tail(items))

ReprEntries(es) ==
  IF Len(es) = 0 THEN ""
  ELSE py_repr(es[1][1]) \o ": " \o py_repr(es[1][2]) \o
       (IF Len(es) = 1 THEN "" ELSE ", " \o ReprEntries(Tail(es)))

\* str(x), also what an f-string field formats x to
py_str(x) == IF x.t = "str" THEN x.s ELSE py_repr(x)

(***************************************************************************)
(* parser.py: the flattener. A pair is <<key object, value string>>: the   *)
(* key is the dict key itself at the root and an f-string below it.        *)
(***************************************************************************)
RECURSIVE FlattenLoop(_, _)
\* the loop of _flatten_dict over data.items()
FlattenLoop(es, prefix) ==
  IF Len(es) = 0 THEN <<>>
  ELSE LET k == es[1][1]
           v == es[1][2]
           full_key == IF Truthy(prefix)
                       THEN PStr(py_str(prefix) \o "." \o py_str(k))
                       ELSE k
           here == IF v.t = "dict" THEN FlattenLoop(v.entries, full_key)
                   ELSE IF v.t = "list" THEN << <<full_key, py_str(v)>> >>
                   ELSE << <<full_key, py_str(v)>> >>
       IN here \o FlattenLoop(Tail(es), prefix)

_flatten_dict(d, prefix) == FlattenLoop(d.entries, prefix)

(***************************************************************************)
(* json.loads, for the JSON the documents of the model are written in:     *)
(* objects, arrays, strings without escapes, integers, true, false, null.  *)
(* A decoder result is Loaded(object) or Raised (the decoder's exception). *)
(***************************************************************************)
Raised == [ok |-> FALSE]
Loaded(v) == [ok |-> TRUE, val |-> v]
Parsed(v, rest) == [ok |-> TRUE, val |-> v, rest |-> rest]

\* two dict keys are the same key: equal, or numbers (a bool is one) of the
\* same value
KeyNumber(k) ==
  IF k.t = "int" THEN <<k.i>>
  ELSE IF k.t = "bool" THEN <<IF k.b THEN 1 ELSE 0>>
  ELSE <<>>
SameKey(a, b) == a = b \/ (KeyNumber(a) # <<>> /\ KeyNumber(a) = KeyNumber(b))

\* d[k] = v on the entries of a dict: a key already present keeps its place
DictSet(es, k, v) ==
  IF \E i \in 1..Len(es) : SameKey(es[i][1], k)
  THEN [i \in 1..Len(es) |-> IF SameKey(es[i][1], k) THEN <<es[i][1], v>> ELSE es[i]]
  ELSE Append(es, <<k, v>>)

JsonWhitespace == {" ", "\t", "\n", "\r"}

RECURSIVE JsonSkip(_)
JsonSkip(s) == IF Len(s) > 0 /\ Head(s) \in JsonWhitespace THEN JsonSkip(Tail(s)) ELSE s

\* a string, s starting after its opening quote
JsonString(s) ==
  LET q == CharIndex("\"", s)
      body == SubSeq(s, 1, q - 1)
  IN IF q = 0 THEN Raised
     ELSE IF \E i \in 1..Len(body) : CharAt(body, i) \in {"\\", "\n", "\t", "\r"} THEN Raised
     ELSE Parsed(PStr(body), SubSeq(s, q + 1, Len(s)))

\* the value of a run of digits
RECURSIVE DigitsValue(_, _)
DigitsValue(s, acc) ==
  IF Len(s) = 0 THEN acc
  ELSE DigitsValue(Tail(s), acc * 10 + CharIndex(Head(s), DigitChars) - 1)

\* an integer: -?(0|[1-9]\d*), not followed by a fraction or an exponent
JsonNumber(s) ==
  LET neg == startswith(s, "-")
      body == IF neg THEN Tail(s) ELSE s
      n == IF startswith(body, "0") THEN 1 ELSE DigitRun(body)
      rest == SubSeq(body, n + 1, Len(body))
      v == DigitsValue(SubSeq(body, 1, n), 0)
  IN IF n = 0 \/ (Len(rest) > 0 /\ Head(rest) \in {".", "e", "E"}) THEN Raised
     ELSE Parsed(PInt(IF neg THEN 0 - v ELSE v), rest)

RECURSIVE JsonValue(_), JsonMembers(_, _), JsonElements(_, _)
\* a value at the start of s, s without leading white space
JsonValue(s) ==
  IF Len(s) = 0 THEN Raised
  ELSE IF Head(s) = "{"
       THEN LET r == JsonSkip(Tail(s))
            IN IF startswith(r, "}") THEN Parsed(PDict(<<>>), Tail(r))
               ELSE JsonMembers(r, <<>>)
  ELSE IF Head(s) = "["
       THEN LET r == JsonSkip(Tail(s))
            IN IF startswith(r, "]") THEN Parsed(PList(<<>>), Tail(r))
               ELSE JsonElements(r, <<>>)
  ELSE IF Head(s) = "\"" THEN JsonString(Tail(s))
  ELSE IF Head(s) = "-" \/ IsDigit(Head(s)) THEN JsonNumber(s)
  ELSE IF startswith(s, "true") THEN Parsed(PBool(TRUE), SubSeq(s, 5, Len(s)))
  ELSE IF startswith(s, "false") THEN Parsed(PBool(FALSE), SubSeq(s, 6, Len(s)))
  ELSE IF startswith(s, "null") THEN Parsed(PNone, SubSeq(s, 5, Len(s)))
  ELSE Raised

\* the members of an object after those in acc, s at the next key
JsonMembers(s, acc) ==
  IF ~startswith(s, "\"") THEN Raised
  ELSE LET k == JsonString(Tail(s))
       IN IF ~k.ok THEN Raised
          ELSE LET a == JsonSkip(k.rest)
               IN IF ~startswith(a, ":") THEN Raised
                  ELSE LET v == JsonValue(JsonSkip(Tail(a)))
                       IN IF ~v.ok THEN Raised
                          ELSE LET b == JsonSkip(v.rest)
                                   more == DictSet(acc, k.val, v.val)
                               IN IF startswith(b, "}") THEN Parsed(PDict(more), Tail(b))
                                  ELSE IF startswith(b, ",")
                                       THEN JsonMembers(JsonSkip(Tail(b)), more)
                                       ELSE Raised

\* the elements of an array after those in acc, s at the next element
JsonElements(s, acc) ==
  LET v == JsonValue(s)
  IN IF ~v.ok THEN Raised
     ELSE LET b == JsonSkip(v.rest)
              more == Append(acc, v.val)
          IN IF startswith(b, "]") THEN Parsed(PList(more), Tail(b))
             ELSE IF startswith(b, ",") THEN JsonElements(JsonSkip(Tail(b)), more)
             ELSE Raised

\* json.loads(text): the whole text is one value between white space
json_loads(text) ==
  LET r == JsonValue(JsonSkip(text))
  IN IF r.ok /\ Len(JsonSkip(r.rest)) = 0 THEN Loaded(r.val) ELSE Raised

\* parse_json after the decoder: the steps on the loaded data
JsonPairs(loaded) ==
  IF ~loaded.ok THEN <<<<>>, Some("Invalid JSON: <decoder message>")>>
  ELSE IF loaded.val.t # "dict"
       THEN <<<<>>, Some("JSON file must contain an object at the root level")>>
       ELSE <<_flatten_dict(loaded.val, PStr("")), NoneVal>>

\* parse_json: (pairs, error)
parse_json(text) == JsonPairs(json_loads(text))

(***************************************************************************)
(* yaml.safe_load, for the YAML the documents of the model are written in: *)
(* an empty document, flow collections, block mappings (nested by          *)
(* indentation) whose values are scalars or flow collections, block        *)
(* sequences of scalars, and plain or quoted scalars without escapes.      *)
(* Plain scalars resolve as YAML 1.1 booleans, nulls and decimal integers, *)
(* and otherwise are strings.                                              *)
(***************************************************************************)
YamlTrue == {"yes", "Yes", "YES", "true", "True", "TRUE", "on", "On", "ON"}
YamlFalse == {"no", "No", "NO", "false", "False", "FALSE", "off", "Off", "OFF"}
YamlNull == {"~", "null", "Null", "NULL", ""}

\* [-+]?(0|[1-9][0-9]*)
IsYamlInt(s) ==
  LET body == IF startswith(s, "-") \/ startswith(s, "+") THEN Tail(s) ELSE s
  IN /\ Len(body) > 0
     /\ DigitRun(body) = Len(body)
     /\ Len(body) > 1 => Head(body) # "0"

YamlInt(s) ==
  IF startswith(s, "-") THEN 0 - DigitsValue(Tail(s), 0)
  ELSE IF startswith(s, "+") THEN DigitsValue(Tail(s), 0)
  ELSE DigitsValue(s, 0)

\* the object a plain scalar resolves to
YamlResolve(s) ==
  IF s \in YamlTrue THEN PBool(TRUE)
  ELSE IF s \in YamlFalse THEN PBool(FALSE)
  ELSE IF s \in YamlNull THEN PNone
  ELSE IF IsYamlInt(s) THEN PInt(YamlInt(s))
  ELSE PStr(s)

RECURSIVE YamlSkip(_)
YamlSkip(s) == IF Len(s) > 0 /\ Head(s) \in {" ", "\n"} THEN YamlSkip(Tail(s)) ELSE s

\* ':' at position i of s is a value indicator: white space, a flow
\* indicator or the end follows it
ColonEnds(s, i) ==
  CharAt(s, i) = ":" /\ (i = Len(s) \/ CharAt(s, i + 1) \in {" ", "\n", ",", "]", "}"})

\* the length of the plain scalar at the start of s inside a flow collection
RECURSIVE FlowPlainLen(_, _)
FlowPlainLen(s, i) ==
  IF i > Len(s) THEN Len(s)
  ELSE IF CharAt(s, i) \in {",", "{", "}", "[", "]", "\n"} \/ ColonEnds(s, i) THEN i - 1
  ELSE FlowPlainLen(s, i + 1)

\* a quoted scalar, s starting at its opening quote
YamlQuoted(s) ==
  LET q == CharIndex(Head(s), Tail(s))
  IN IF q = 0 \/ contains(SubSeq(s, 2, q), "\\") THEN Raised
     ELSE Parsed(PStr(SubSeq(s, 2, q)), SubSeq(s, q + 2, Len(s)))

RECURSIVE YamlFlowNode(_), YamlFlowMembers(_, _), YamlFlowItems(_, _)
\* a flow collection, a quoted scalar or the plain scalar of a flow
\* collection at the start of s; s without leading white space
YamlFlowNode(s) ==
  IF Len(s) = 0 THEN Raised
  ELSE IF Head(s) = "{" THEN YamlFlowMembers(YamlSkip(Tail(s)), <<>>)
  ELSE IF Head(s) = "[" THEN YamlFlowItems(YamlSkip(Tail(s)), <<>>)
  ELSE IF Head(s) \in {"\"", "'"} THEN YamlQuoted(s)
  ELSE LET n == FlowPlainLen(s, 1)
       IN IF n = 0 THEN Raised
          ELSE Parsed(YamlResolve(str_rstrip(SubSeq(s, 1, n))), SubSeq(s, n + 1, Len(s)))

\* the entries of a flow mapping after those in acc, s at the next key
YamlFlowMembers(s, acc) ==
  IF startswith(s, "}") THEN Parsed(PDict(acc), Tail(s))
  ELSE LET k == YamlFlowNode(s)
       IN IF ~k.ok \/ k.val.t \in {"dict", "list"} THEN Raised
          ELSE LET a == YamlSkip(k.rest)
                   valued == startswith(a, ":")
                   b == IF valued THEN YamlSkip(Tail(a)) ELSE a
                   empty == ~valued \/ startswith(b, ",") \/ startswith(b, "}")
                   v == IF empty THEN Parsed(PNone, b) ELSE YamlFlowNode(b)
               IN IF ~v.ok THEN Raised
                  ELSE LET c == YamlSkip(v.rest)
                           more == DictSet(acc, k.val, v.val)
                       IN IF startswith(c, "}") THEN Parsed(PDict(more), Tail(c))
                          ELSE IF startswith(c, ",")
                               THEN YamlFlowMembers(YamlSkip(Tail(c)), more)
                               ELSE Raised

\* the items of a flow sequence after those in acc, s at the next item
YamlFlowItems(s, acc) ==
  IF startswith(s, "]") THEN Parsed(PList(acc), Tail(s))
  ELSE LET v == YamlFlowNode(s)
       IN IF ~v.ok THEN Raised
          ELSE LET c == YamlSkip(v.rest)
                   more == Append(acc, v.val)
               IN IF startswith(c, "]") THEN Parsed(PList(more), Tail(c))
                  ELSE IF startswith(c, ",") THEN YamlFlowItems(YamlSkip(Tail(c)), more)
                  ELSE Raised

\* the text of a line without its trailing comment
YamlUncomment(s) ==
  LET i == str_find(s, " #")
  IN str_rstrip(IF startswith(s, "#") THEN "" ELSE IF i = 0 THEN s ELSE SubSeq(s, 1, i - 1))

\* the value written after "key:" or "- ": a flow collection, a quoted
\* scalar or a plain scalar, to the end of the text
YamlInline(text) ==
  LET s == YamlUncomment(text)
  IN IF Len(s) = 0 THEN Loaded(PNone)
     ELSE IF Head(s) \in {"{", "[", "\"", "'"}
          THEN LET r == YamlFlowNode(s)
               IN IF r.ok /\ Len(YamlSkip(r.rest)) = 0 THEN Loaded(r.val) ELSE Raised
     ELSE IF \E i \in 1..Len(s) : CharAt(s, i) = ":" /\ (i = Len(s) \/ CharAt(s, i + 1) = " ")
          THEN Raised
     ELSE Loaded(YamlResolve(s))

\* the position of the ':' that ends the key of a block mapping line, 0
\* when the line has none
YamlKeyEnd(s) ==
  LET from == IF Len(s) > 0 /\ Head(s) \in {"\"", "'"} THEN CharIndex(Head(s), Tail(s)) + 2 ELSE 1
      Hits == {i \in from..Len(s) : CharAt(s, i) = ":" /\ (i = Len(s) \/ CharAt(s, i + 1) = " ")}
  IN IF Hits = {} \/ from = 2 THEN 0 ELSE CHOOSE i \in Hits : \A j \in Hits : i <= j

\* the key of a block mapping line whose key ends at position e
YamlKey(s, e) ==
  LET text == str_rstrip(SubSeq(s, 1, e - 1))
  IN IF Len(text) = 0 \/ Head(text) \in {"{", "[", "-", "#", "&", "*", "!", "|", ">", "%", "@", "`", ","}
     THEN Raised
     ELSE IF Head(text) \in {"\"", "'"}
          THEN (IF Len(text) >= 2 /\ CharIndex(Head(text), Tail(text)) = Len(text) - 1
                THEN Loaded(PStr(SubSeq(text, 2, Len(text) - 1))) ELSE Raised)
     ELSE Loaded(YamlResolve(text))

RECURSIVE LeadingSpaces(_)
LeadingSpaces(s) == IF Len(s) > 0 /\ Head(s) = " " THEN 1 + LeadingSpaces(Tail(s)) ELSE 0

\* the number of lines at the start of lines that are indented deeper than n
RECURSIVE DeeperRun(_, _)
DeeperRun(lines, n) ==
  IF Len(lines) > 0 /\ LeadingSpaces(lines[1]) > n THEN 1 + DeeperRun(Tail(lines), n) ELSE 0

\* the block mapping of the lines, all of them indented by n or deeper
RECURSIVE YamlBlockMapping(_, _, _)
YamlBlockMapping(lines, n, acc) ==
  IF Len(lines) = 0 THEN Loaded(PDict(acc))
  ELSE LET text == SubSeq(lines[1], n + 1, Len(lines[1]))
           e == YamlKeyEnd(text)
           k == IF e = 0 THEN Raised ELSE YamlKey(text, e)
           deeper == DeeperRun(Tail(lines), n)
           child == SubSeq(lines, 2, 1 + deeper)
           after == SubSeq(lines, 2 + deeper, Len(lines))
           inline == YamlUncomment(SubSeq(text, e + 1, Len(text)))
           v == IF deeper = 0 THEN YamlInline(str_lstrip(inline))
                ELSE IF Len(inline) > 0 THEN Raised
                ELSE YamlBlockMapping(child, LeadingSpaces(child[1]), <<>>)
       IN IF LeadingSpaces(lines[1]) # n \/ contains(lines[1], "\t") THEN Raised
          ELSE IF ~k.ok \/ ~v.ok THEN Raised
          ELSE YamlBlockMapping(after, n, DictSet(acc, k.val, v.val))

\* the block sequence of the lines, each "- " and a scalar
RECURSIVE YamlBlockSequence(_, _)
YamlBlockSequence(lines, acc) ==
  IF Len(lines) = 0 THEN Loaded(PList(acc))
  ELSE LET v == IF startswith(lines[1], "- ") THEN YamlInline(str_lstrip(Tail(lines[1])))
                ELSE IF lines[1] = "-" THEN Loaded(PNone)
                ELSE Raised
       IN IF ~v.ok THEN Raised ELSE YamlBlockSequence(Tail(lines), Append(acc, v.val))

\* the lines of the text that hold more than white space and comments
RECURSIVE ContentLines(_)
ContentLines(lines) ==
  IF Len(lines) = 0 THEN <<>>
  ELSE LET t == str_strip(lines[1])
       IN (IF Len(t) = 0 \/ startswith(t, "#") THEN <<>> ELSE <<str_rstrip(lines[1])>>)
          \o ContentLines(Tail(lines))

\* yaml.safe_load(text)
yaml_safe_load(text) ==
  LET lines == ContentLines(str_split(text, "\n"))
      first == IF Len(lines) = 0 THEN "" ELSE lines[1]
      whole == str_join("\n", lines)
      indent == LeadingSpaces(first)
      start == SubSeq(first, indent + 1, Len(first))
  IN IF Len(lines) = 0 THEN Loaded(PNone)
     ELSE IF Head(start) \in {"{", "["}
          THEN LET r == YamlFlowNode(str_lstrip(whole))
               IN IF r.ok /\ Len(YamlSkip(YamlUncomment(r.rest))) = 0 THEN Loaded(r.val) ELSE Raised
     ELSE IF first = "-" \/ startswith(first, "- ") THEN YamlBlockSequence(lines, <<>>)
     ELSE IF YamlKeyEnd(start) > 0 THEN YamlBlockMapping(lines, indent, <<>>)
     ELSE IF Len(lines) = 1 THEN YamlInline(start)
     ELSE Raised

\* parse_yaml without the branch for a document that loads as None
YamlPairsNoEmpty(loaded) ==
  IF ~loaded.ok THEN <<<<>>, Some("Invalid YAML: <decoder message>")>>
  ELSE IF loaded.val.t # "dict"
       THEN <<<<>>, Some("YAML file must contain a mapping at the root level")>>
       ELSE <<_flatten_dict(loaded.val, PStr("")), NoneVal>>

parse_yaml_no_empty(text, available) ==
  IF ~available
  THEN <<<<>>, Some("YAML support requires PyYAML. Install with: pip install PyYAML")>>
  ELSE YamlPairsNoEmpty(yaml_safe_load(text))

\* parse_yaml after the decoder: the steps on the loaded data
YamlPairs(loaded) ==
  IF ~loaded.ok THEN <<<<>>, Some("Invalid YAML: <decoder message>")>>
  ELSE IF loaded.val.t = "none" THEN <<<<>>, NoneVal>>
  ELSE IF loaded.val.t # "dict"
       THEN <<<<>>, Some("YAML file must contain a mapping at the root level")>>
       ELSE <<_flatten_dict(loaded.val, PStr("")), NoneVal>>

\* parse_yaml: (pairs, error)
parse_yaml(text, available) ==
  IF ~available
  THEN <<<<>>, Some("YAML support requires PyYAML. Install with: pip install PyYAML")>>
  ELSE YamlPairs(yaml_safe_load(text))

(***************************************************************************)
(* The inputs of _flatten_dict: every mapping of up to MaxNodes keys, at   *)
(* all depths together, over a few keys and leaves, and the mappings of    *)
(* the documentation.                                                      *)
(***************************************************************************)
GenKeys == {PStr("a"), PStr("b"), PStr(""), PInt(0)}
GenLeaves == {PInt(1), PBool(TRUE), PList(<<PInt(1), PStr("a"), PBool(TRUE)>>)}

RECURSIVE DictsOfSize(_), EntriesOfSize(_)
\* the entry sequences of n keys in all
DictsOfSize(n) ==
  IF n = 0 THEN {<<>>}
  ELSE UNION {UNION {{<<e>> \o d : d \in {r \in DictsOfSize(n - m) :
                                             \A i \in 1..Len(r) : r[i][1] # e[1]}} :
                     e \in EntriesOfSize(m)} : m \in 1..n}

\* the entries of n keys in all, the entry's own key included
EntriesOfSize(n) ==
  IF n = 1 THEN {<<k, v>> : k \in GenKeys, v \in GenLeaves \cup {PDict(<<>>)}}
  ELSE {<<k, PDict(d)>> : k \in GenKeys, d \in DictsOfSize(n - 1)}

ExampleDicts ==
  {PDict(<< <<PStr("a"), PDict(<< <<PStr("b"), PDict(<< <<PStr("c"), PInt(1)>> >>)>> >>)>> >>),
   PDict(<< <<PStr("db"), PDict(<< <<PStr("host"), PStr("localhost")>>,
                                   <<PStr("port"), PInt(5432)>> >>)>> >>),
   PDict(<< <<PStr("port"), PInt(8080)>>, <<PStr("debug"), PBool(TRUE)>> >>),
   PDict(<< <<PStr("tags"), PList(<<PStr("x"), PNone, PBool(FALSE)>>)>>,
            <<PInt(8080), PStr("web")>>, <<PStr("n"), PNone>> >>)}

FlattenInputs ==
  UNION {{PDict(d) : d \in DictsOfSize(n)} : n \in 0..MaxNodes} \cup ExampleDicts

(***************************************************************************)
(* SpecFlatten: _flatten_dict applied to one decoded mapping.              *)
(***************************************************************************)
InitFlatten ==
  /\ pc = "flatten"
  /\ data \in FlattenInputs
  /\ MainIdle /\ ExplainIdle

Flatten ==
  /\ pc = "flatten"
  /\ pairs' = _flatten_dict(data, PStr(""))
  /\ pc' = "flattened"
  /\ UNCHANGED <<file_path, fs, yaml_available, content, file_type, parse_error,
                 stages, stdout, stderr, exit_code, key, value, explanation, data>>

NextFlatten == Flatten

SpecFlatten == InitFlatten /\ [][NextFlatten]_vars

(***************************************************************************)
(* utils.py: format detection, the file read, the rendering of one entry.  *)
(***************************************************************************)
SUPPORTED_EXTENSIONS ==
  << <<".env", "env">>, <<".json", "json">>, <<".yaml", "yaml">>, <<".yml", "yaml">> >>

\* os.path.splitext(p)[1]: the text from the last '.' of the last path
\* component on, when a character other than '.' precedes it there; else ''
splitext_ext(p) ==
  LET sep == str_rfind(p, "/")
      dot == str_rfind(p, ".")
  IN IF dot > sep /\ \E i \in (sep + 1)..(dot - 1) : CharAt(p, i) # "."
     THEN SubSeq(p, dot, Len(p))
     ELSE ""

\* SUPPORTED_EXTENSIONS.get(e)
ExtensionGet(e) ==
  IF \E i \in DOMAIN SUPPORTED_EXTENSIONS : SUPPORTED_EXTENSIONS[i][1] = e
  THEN Some(SUPPORTED_EXTENSIONS[CHOOSE i \in DOMAIN SUPPORTED_EXTENSIONS :
                                   SUPPORTED_EXTENSIONS[i][1] = e][2])
  ELSE NoneVal

detect_file_type(path) == ExtensionGet(str_lower(splitext_ext(path)))

\* read_file_content: (content, error), by what the file system holds at
\* the path
read_file_content(path, entry) ==
  CASE entry.kind = "missing" -> <<NoneVal, Some("File not found: " \o path)>>
    [] entry.kind = "directory" -> <<NoneVal, Some("Not a file: " \o path)>>
    [] entry.kind = "denied" -> <<NoneVal, Some("Permission denied: " \o path)>>
    [] entry.kind = "undecodable" ->
         <<NoneVal, Some("Unable to read file (encoding error): " \o path)>>
    [] entry.kind = "oserror" -> <<NoneVal, Some("Error reading file: <exception message>")>>
    [] entry.kind = "file" -> <<Some(entry.text), NoneVal>>

DisplayLimit == 80
DisplayKeep == 77

format_output(k, v, text) ==
  LET display_value == IF Len(v) > DisplayLimit THEN SubSeq(v, 1, DisplayKeep) \o "..." ELSE v
  IN k \o " = " \o display_value \o "\n-> " \o text \o "\n"

\* ", ".join(sorted(SUPPORTED_EXTENSIONS.keys()))
get_supported_extensions == ".env, .json, .yaml, .yml"

(***************************************************************************)
(* parser.py parse_file and cli.py process_config.                         *)
(***************************************************************************)
\* the pairs of parse_env with their keys as objects
RECURSIVE StrKeyed(_)
StrKeyed(ps) ==
  IF Len(ps) = 0 THEN <<>> ELSE << <<PStr(ps[1][1]), ps[1][2]>> >> \o StrKeyed(Tail(ps))

\* parse_env with its keys as objects
EnvPairs(parsed) == <<StrKeyed(parsed[1]), parsed[2]>>

parse_file(path, type, text, available) ==
  IF type = "env" THEN EnvPairs(parse_env(text))
  ELSE IF type = "json" THEN parse_json(text)
  ELSE IF type = "yaml" THEN parse_yaml(text, available)
  ELSE <<<<>>, Some("Unsupported file type: " \o type)>>

\* the loop of process_config: the formatted entries, or Raised when
\* get_explanation calls upper() on a key that is no str
RECURSIVE ExplainLoop(_, _)
ExplainLoop(ps, output_parts) ==
  IF Len(ps) = 0 THEN Loaded(output_parts)
  ELSE IF ps[1][1].t # "str" THEN Raised
  ELSE ExplainLoop(Tail(ps),
         Append(output_parts,
                format_output(ps[1][1].s, ps[1][2], get_explanation(ps[1][1].s, ps[1][2]))))

process_config(ps) ==
  IF Len(ps) = 0 THEN Loaded("No configuration entries found in the file.")
  ELSE LET parts == ExplainLoop(ps, <<>>)
       IN IF parts.ok THEN Loaded(str_join("\n", parts.val)) ELSE Raised

(***************************************************************************)
(* The inputs of main(): the path, what the file system holds there, and   *)
(* whether PyYAML is installed.                                            *)
(***************************************************************************)
PathDirs == {"", "conf.d/"}
PathStems == {"", "config", "a.b"}
PathExts == {"", ".env", ".ENV", ".json", ".yaml", ".yml", ".YmL", ".txt", ".env.bak"}
Paths == {d \o n \o e : d \in PathDirs, n \in PathStems, e \in PathExts}

EnvDocs ==
  {"", "PORT=8080\nDEBUG=true", "# only a comment\n", EnvExample,
   "K=v # c\nnot a pair\nmy_service_timeout=30"}

JsonDocs ==
  {"{}", " {} \n", "{\"port\": 8080, \"debug\": true}",
   "{\"db\":{\"host\":\"localhost\",\"port\":5432}}", "{\"a\": {\"b\": {\"c\": 1}}}",
   "{\"\": {\"b\": 1}}", "{\"tags\": [1, \"x\", true, null]}", "[1, 2]", "42", "null",
   "{\"a\": "}

YamlDocs ==
  {"", "# only a comment\n", "port: 8080\ndebug: true",
   "db:\n  host: localhost\n  port: 5432", "8080: web", "{a: {b: 1}}",
   "tags: [a, b]\nname: \"my app\"", "- a\n- b", "hello", "a: b: c", "{a: 1"}

Contents == EnvDocs \cup JsonDocs \cup YamlDocs

\* the texts a .yaml file holds in the model: those yaml_safe_load covers
YamlContents == YamlDocs \cup JsonDocs

FsEntries ==
  {[kind |-> k] : k \in {"missing", "directory", "denied", "undecodable", "oserror"}}
  \cup {[kind |-> "file", text |-> c] : c \in Contents}

(***************************************************************************)
(* Spec: one run of main(), stage by stage, after the arguments are parsed.*)
(***************************************************************************)
Init ==
  /\ pc = "detect"
  /\ file_path \in Paths
  /\ fs \in FsEntries
  /\ (detect_file_type(file_path) = Some("yaml") /\ fs.kind = "file") => fs.text \in YamlContents
  /\ yaml_available \in BOOLEAN
  /\ content = NoneVal
  /\ file_type = NoneVal
  /\ pairs = <<>>
  /\ parse_error = NoneVal
  /\ stages = <<>>
  /\ stdout = <<>>
  /\ stderr = <<>>
  /\ exit_code = NoneVal
  /\ ExplainIdle /\ FlattenIdle

\* `if read_error:` and `if parse_error:`: an error is a non-empty message
IsError(o) == IF IsNone(o) THEN FALSE ELSE Len(o[1]) > 0

\* cli.py 80-85: the extension is not supported
DetectUnsupported ==
  /\ pc = "detect"
  /\ IsNone(detect_file_type(file_path))
  /\ stages' = Append(stages, "detect")
  /\ stderr' = stderr \o <<"Error: Unsupported file type.",
                           "Supported types: " \o get_supported_extensions>>
  /\ exit_code' = Some(1)
  /\ pc' = "exit"
  /\ UNCHANGED <<file_path, fs, yaml_available, content, file_type, pairs,
                 parse_error, stdout, key, value, explanation, data>>

\* cli.py 80-82: the extension is supported
DetectSupported ==
  /\ pc = "detect"
  /\ ~IsNone(detect_file_type(file_path))
  /\ stages' = Append(stages, "detect")
  /\ file_type' = detect_file_type(file_path)
  /\ pc' = "read"
  /\ UNCHANGED <<file_path, fs, yaml_available, content, pairs, parse_error,
                 stdout, stderr, exit_code, key, value, explanation, data>>

\* cli.py 88-91: the read fails
ReadFails ==
  /\ pc = "read"
  /\ \E got \in {read_file_content(file_path, fs)} :
        /\ IsError(got[2])
        /\ stderr' = Append(stderr, "Error: " \o got[2][1])
  /\ stages' = Append(stages, "read")
  /\ exit_code' = Some(1)
  /\ pc' = "exit"
  /\ UNCHANGED <<file_path, fs, yaml_available, content, file_type, pairs,
                 parse_error, stdout, key, value, explanation, data>>

\* cli.py 88-89: the read succeeds
ReadSucceeds ==
  /\ pc = "read"
  /\ \E got \in {read_file_content(file_path, fs)} :
        /\ ~IsError(got[2])
        /\ content' = got[1]
  /\ stages' = Append(stages, "read")
  /\ pc' = "parse"
  /\ UNCHANGED <<file_path, fs, yaml_available, file_type, pairs, parse_error,
                 stdout, stderr, exit_code, key, value, explanation, data>>

\* cli.py 94: pairs, parse_error = parse_file(file_path, file_type, content)
Parse ==
  /\ pc = "parse"
  /\ \E got \in {parse_file(file_path, file_type[1], content[1], yaml_available)} :
        /\ pairs' = got[1]
        /\ parse_error' = got[2]
  /\ stages' = Append(stages, "parse")
  /\ pc' = "parsed"
  /\ UNCHANGED <<file_path, fs, yaml_available, content, file_type, stdout,
                 stderr, exit_code, key, value, explanation, data>>

\* cli.py 96-97: the parser reported an error
ParseFails ==
  /\ pc = "parsed"
  /\ IsError(parse_error)
  /\ stderr' = Append(stderr, "Error: " \o parse_error[1])
  /\ exit_code' = Some(1)
  /\ pc' = "exit"
  /\ UNCHANGED <<file_path, fs, yaml_available, content, file_type, pairs,
                 parse_error, stages, stdout, key, value, explanation, data>>

\* cli.py 100-103: process_config returns, the explanations are printed
PrintExplanations ==
  /\ pc = "parsed"
  /\ ~IsError(parse_error)
  /\ \E output \in {process_config(pairs)} :
        /\ output.ok
        /\ stdout' = Append(stdout, output.val)
  /\ stages' = Append(stages, "explain")
  /\ exit_code' = Some(0)
  /\ pc' = "exit"
  /\ UNCHANGED <<file_path, fs, yaml_available, content, file_type, pairs,
                 parse_error, stderr, key, value, explanation, data>>

\* cli.py 100, explainer.py 170: key.upper() raises AttributeError for a key
\* that is no str; nothing catches it, the interpreter prints the traceback
\* and exits with status 1
UncaughtException ==
  /\ pc = "parsed"
  /\ ~IsError(parse_error)
  /\ ~process_config(pairs).ok
  /\ stages' = Append(stages, "explain")
  /\ stderr' = Append(stderr, "Traceback (most recent call last): AttributeError")
  /\ exit_code' = Some(1)
  /\ pc' = "exit"
  /\ UNCHANGED <<file_path, fs, yaml_available, content, file_type, pairs,
                 parse_error, stdout, key, value, explanation, data>>

Next ==
  \/ DetectUnsupported \/ DetectSupported
  \/ ReadFails \/ ReadSucceeds
  \/ Parse \/ ParseFails
  \/ PrintExplanations \/ UncaughtException

Spec == Init /\ [][Next]_vars

(***************************************************************************)
(* What the claims about a run of main() are stated with.                  *)
(***************************************************************************)
StageOrder == <<"detect", "read", "parse", "explain">>

NoEntriesMessage == "No configuration entries found in the file."

\* the four outcomes of a finished run, by the stage that ended it
UnsupportedOutcome == stages = SubSeq(StageOrder, 1, 1) /\ IsNone(file_type)
FileAccessOutcome == stages = SubSeq(StageOrder, 1, 2) /\ IsNone(content)
ParseErrorOutcome == stages = SubSeq(StageOrder, 1, 3) /\ IsError(parse_error)
SuccessOutcome == stages = StageOrder /\ Len(stdout) = 1 /\ stderr = <<>>

OutcomeCount ==
  (IF UnsupportedOutcome THEN 1 ELSE 0) + (IF FileAccessOutcome THEN 1 ELSE 0)
  + (IF ParseErrorOutcome THEN 1 ELSE 0) + (IF SuccessOutcome THEN 1 ELSE 0)

\* C1: in every run of main() the stages run in the order format detection,
\* file read, parse, and the first failing stage ends the run with nothing on
\* standard output, a message on the error stream and exit code 1; exactly
\* one of the outcomes unsupported format, file access error, parse error,
\* success occurs, and the exit code is 0 exactly when the outcome is success.
C1_StagesAndOutcomes ==
  /\ \E n \in 0..Len(StageOrder) : stages = SubSeq(StageOrder, 1, n)
  /\ pc = "exit" =>
       /\ OutcomeCount = 1
       /\ (exit_code = Some(0)) <=> SuccessOutcome
       /\ ~SuccessOutcome => (stdout = <<>> /\ Len(stderr) > 0 /\ exit_code = Some(1))

\* a file of a supported format was read and the run is over
RanOn(type, text) ==
  pc = "exit" /\ file_type = Some(type) /\ fs.kind = "file" /\ fs.text = text

\* the run ended as a success that printed the message for no entries
NoEntriesSuccess ==
  /\ pairs = <<>> /\ IsNone(parse_error)
  /\ stdout = <<NoEntriesMessage>> /\ stderr = <<>>
  /\ exit_code = Some(0)

NeverPopulatedAndFailed == ~(Len(pairs) > 0 /\ ~IsNone(parse_error))

\* C2 as the specification states it: an empty file of any supported format,
\* and the document {} in JSON or YAML, give an empty pair list with no
\* failure reason, the message for no entries and exit code 0; a parse result
\* is never both populated and failed.
C2_ZeroPairSuccess_AsStated ==
  /\ \A type \in {"env", "json", "yaml"} : RanOn(type, "") => NoEntriesSuccess
  /\ \A type \in {"json", "yaml"} : RanOn(type, "{}") => NoEntriesSuccess
  /\ NeverPopulatedAndFailed

\* C2: an empty env-style file, the document {} in JSON, and an empty file or
\* the document {} in YAML when PyYAML is installed, give an empty pair list
\* with no failure reason, the message for no entries and exit code 0; an
\* empty JSON file is a parse failure with exit code 1; a parse result is
\* never both populated and failed.
C2_ZeroPairSuccess ==
  /\ RanOn("env", "") => NoEntriesSuccess
  /\ RanOn("json", "{}") => NoEntriesSuccess
  /\ \A text \in {"", "{}"} : (RanOn("yaml", text) /\ yaml_available) => NoEntriesSuccess
  /\ RanOn("json", "") => (ParseErrorOutcome /\ stdout = <<>> /\ exit_code = Some(1))
  /\ NeverPopulatedAndFailed

C2_Witness == RanOn("yaml", "") /\ yaml_available /\ NoEntriesSuccess

\* the format the ending of the lower-cased path names
FormatOfEnding(path) ==
  LET lowered == str_lower(path)
  IN IF endswith(lowered, ".env") THEN Some("env")
     ELSE IF endswith(lowered, ".json") THEN Some("json")
     ELSE IF endswith(lowered, ".yaml") \/ endswith(lowered, ".yml") THEN Some("yaml")
     ELSE NoneVal

\* C3: the detected format depends only on the lower-cased ending of the
\* path: .env is env-style (a file named exactly .env included), .json is
\* JSON, .yaml and .yml are YAML, in any letter case; every other path is
\* unsupported, which main() reports as its own error.
C3_DetectByExtension ==
  pc # "detect" =>
    /\ file_type = FormatOfEnding(file_path)
    /\ IsNone(FormatOfEnding(file_path)) =>
         /\ UnsupportedOutcome /\ ~FileAccessOutcome /\ ~ParseErrorOutcome
         /\ stderr[1] = "Error: Unsupported file type."
         /\ exit_code = Some(1)

(***************************************************************************)
(* What the claims about the explanation engine are stated with: the       *)
(* tables as sets of rows, and the readable form computed by one scan of   *)
(* the characters.                                                         *)
(***************************************************************************)
KnownRows == {KNOWN_KEYS[i] : i \in DOMAIN KNOWN_KEYS}
HasRow(k) == \E r \in KnownRows : r[1] = k
Canon(k) == str_upper(k)
Bridged(k) == str_replace(str_upper(k), ".", "_")
MissesTable(k) == ~HasRow(Canon(k)) /\ ~HasRow(Bridged(k))

\* lower-case; every run of '_' becomes one space; none at either end
RECURSIVE ReadableScan(_, _, _)
ReadableScan(s, started, gap) ==
  IF Len(s) = 0 THEN ""
  ELSE IF Head(s) = "_" THEN ReadableScan(Tail(s), started, started)
  ELSE (IF gap THEN " " ELSE "") \o LowerChar(Head(s)) \o ReadableScan(Tail(s), TRUE, FALSE)
ReadableForm(s) == ReadableScan(s, FALSE, FALSE)

\* the template with its one "{}" slot filled by r
Filled(template, r) ==
  LET p == CHOOSE p \in 1..Len(template) : SubSeq(template, p, p + 1) = "{}"
  IN SubSeq(template, 1, p - 1) \o r \o SubSeq(template, p + 2, Len(template))

SuffixAt(k, i) == endswith(Canon(k), KEY_SUFFIX_HINTS[i][1])
HasSuffix(k) == \E i \in DOMAIN KEY_SUFFIX_HINTS : SuffixAt(k, i)
\* the result is the one every probe value gives; holding in the states of
\* every value, it makes the results of all values of a key equal
ProbeValues == {"x", "1"}
ValueFree == \A v \in ProbeValues : get_explanation(key, v) = explanation[1]

\* C4: a key whose upper-cased form is in the exact-match table gets that
\* entry's text verbatim; otherwise, a key whose upper-cased form with every
\* '.' replaced by '_' is in the table gets that entry's text verbatim. In
\* both cases the value plays no part and no suffix or value-shape rule is
\* consulted, also when the key ends with a suffix of the suffix table.
C4_ExactMatchFirst ==
  pc = "explained" =>
    /\ HasRow(Canon(key)) =>
         /\ \E r \in KnownRows : r[1] = Canon(key) /\ explanation = Some(r[2])
         /\ ValueFree
    /\ (~HasRow(Canon(key)) /\ HasRow(Bridged(key))) =>
         /\ \E r \in KnownRows : r[1] = Bridged(key) /\ explanation = Some(r[2])
         /\ ValueFree
    /\ key = "PORT" => explanation = Some("The network port the application listens on.")
    /\ key = "SMTP_HOST" => explanation = Some("The hostname of the email server.")
    /\ key = "database.host" => explanation = Some(get_explanation("DATABASE_HOST", value))

\* a dot-bridged key that also ends with a suffix of the suffix table has
\* been explained from the exact-match table
C4_Witness ==
  /\ pc = "explained"
  /\ ~HasRow(Canon(key)) /\ HasRow(Bridged(key)) /\ HasSuffix(key)
  /\ explanation = Some("Controls how many database connections can exist at the same time.")

\* C5: a key that misses the exact-match table and whose upper-cased form
\* ends with a suffix of the suffix table gets the template of the first such
\* suffix in declaration order, its slot filled with the readable form of the
\* key without that suffix; the value plays no part.
C5_SuffixInference ==
  pc = "explained" =>
    /\ (MissesTable(key) /\ HasSuffix(key)) =>
         /\ \E i \in DOMAIN KEY_SUFFIX_HINTS :
              /\ SuffixAt(key, i)
              /\ \A j \in 1..(i - 1) : ~SuffixAt(key, j)
              /\ explanation =
                   Some(Filled(KEY_SUFFIX_HINTS[i][2],
                               ReadableForm(SubSeq(Canon(key), 1,
                                   Len(key) - Len(KEY_SUFFIX_HINTS[i][1])))))
         /\ ValueFree
    /\ key = "MY_SERVICE_TIMEOUT" =>
         explanation = Some("The timeout duration (in seconds) for my service.")

\* a key with a doubled underscore before its suffix has been explained by
\* the suffix rule
C5_Witness ==
  /\ pc = "explained"
  /\ key = "db__Timeout"
  /\ explanation = Some("The timeout duration (in seconds) for db.")

\* the hint of the first pattern, in the order URL, email, boolean-true,
\* boolean-false, numeric, path, that the value matches
FirstHint(v) ==
  LET folded == str_strip(str_lower(v))
      tests == << <<MatchUrl(v), "appears to be a URL">>,
                  <<MatchEmail(v), "appears to be an email address">>,
                  <<MatchBooleanTrue(folded), "enables this feature">>,
                  <<MatchBooleanFalse(folded), "disables this feature">>,
                  <<MatchNumber(v), "numeric value">>,
                  <<MatchPath(v), "appears to be a file path">> >>
      hits == {i \in DOMAIN tests : tests[i][1]}
  IN IF hits = {} THEN NoneVal
     ELSE Some(tests[CHOOSE i \in hits : \A j \in hits : i <= j][2])

IsIdentifier(k) ==
  /\ Len(k) > 0
  /\ IsAlpha(CharAt(k, 1)) \/ CharAt(k, 1) = "_"
  /\ \A i \in 1..Len(k) : IsAlpha(CharAt(k, i)) \/ IsDigit(CharAt(k, i)) \/ CharAt(k, i) = "_"

\* the text before the first '=' of the trimmed line, trimmed on the right
ShapeKey(raw) ==
  LET t == str_strip(raw)
      e == CharIndex("=", t)
  IN IF e = 0 THEN "" ELSE str_rstrip(SubSeq(t, 1, e - 1))

\* the line has the KEY=VALUE shape and is neither blank nor a comment
HasShape(raw) == ~startswith(str_strip(raw), "#") /\ IsIdentifier(ShapeKey(raw))

RECURSIVE ShapedKeys(_)
ShapedKeys(lines) ==
  IF Len(lines) = 0 THEN <<>>
  ELSE (IF HasShape(lines[1]) THEN <<ShapeKey(lines[1])>> ELSE <<>>) \o ShapedKeys(Tail(lines))

PairKeys(ps) == [i \in 1..Len(ps) |-> ps[i][1]]
PairValues(ps) == [i \in 1..Len(ps) |-> ps[i][2]]

\* C7: parse_env never fails, and emits exactly one pair per line of the
\* KEY=VALUE shape, in line order; blank lines, comment lines and lines of
\* another shape contribute nothing; a key on several lines yields several
\* pairs.
C7_EnvOrderNoFailure ==
  pc = "env_parsed" =>
    /\ IsNone(parse_error)
    /\ PairKeys(pairs) = ShapedKeys(str_split(content, "\n"))
    /\ content = EnvExample =>
         /\ PairKeys(pairs) = <<"PORT", "DEBUG", "API_URL">>
         /\ PairValues(pairs) = <<"8080", "true", "https://api.example.com">>

\* a text with a skipped line and the same key on two lines has been parsed
\* into two pairs of that key
C7_Witness ==
  /\ pc = "env_parsed"
  /\ content = "K=v # c\nnot a pair\nK='v'"
  /\ pairs = << <<"K", "v">>, <<"K", "v">> >>

\* a value is re-quoted when it holds white space, '#' or a quote
NeedsQuotes(v) == \E i \in 1..Len(v) : CharAt(v, i) \in Whitespace \cup {"#", "\"", "'"}
RenderPair(p) == p[1] \o "=" \o (IF NeedsQuotes(p[2]) THEN "\"" \o p[2] \o "\"" ELSE p[2])
RenderEnv(ps) == str_join("\n", [i \in 1..Len(ps) |-> RenderPair(ps[i])])

\* C8: parsing the rendered KEY=VALUE lines of the pairs parse_env extracted
\* (a value re-quoted if it holds special characters) yields the same pairs.
C8_EnvIdempotent ==
  pc = "env_parsed" => parse_env(RenderEnv(pairs))[1] = pairs

\* pairs whose values need quotes (inner spaces, a kept quote) have been
\* extracted
C8_Witness ==
  /\ pc = "env_parsed"
  /\ Len(pairs) = 2
  /\ pairs[1][2] = " s " /\ pairs[2][2] = "\"q\""
(***************************************************************************)
(* What the claims about the flattener are stated with.                    *)
(***************************************************************************)
RECURSIVE LeafPaths(_, _)
\* the key paths of the non-mapping leaves below the entries es, depth
\* first in declared order; path is the path of the mapping holding es
LeafPaths(es, path) ==
  IF Len(es) = 0 THEN <<>>
  ELSE LET here == Append(path, es[1][1])
       IN (IF es[1][2].t = "dict" THEN LeafPaths(es[1][2].entries, here) ELSE <<here>>)
          \o LeafPaths(Tail(es), path)

\* the keys of a path as text, joined by dots
DotJoined(path) == str_join(".", [i \in 1..Len(path) |-> py_str(path[i])])

\* C9: the pairs of a flattened mapping correspond one to one, in depth-first
\* declared order, to its non-mapping leaves, and each pair's key is the
\* dot-joined path of all ancestor keys down to the leaf.
C9_FlattenPaths ==
  pc = "flattened" =>
    LET paths == LeafPaths(data.entries, <<>>)
    IN /\ Len(pairs) = Len(paths)
       /\ \A i \in 1..Len(pairs) : py_str(pairs[i][1]) = DotJoined(paths[i])

RECURSIVE LeafValues(_)
\* the non-mapping leaves below the entries es, depth first in declared order
LeafValues(es) ==
  IF Len(es) = 0 THEN <<>>
  ELSE (IF es[1][2].t = "dict" THEN LeafValues(es[1][2].entries) ELSE <<es[1][2]>>)
       \o LeafValues(Tail(es))

RECURSIVE JsonLiteral(_)
\* a value in the literal notation of JSON, which YAML shares for flow nodes
JsonLiteral(v) ==
  CASE v.t = "str" -> "\"" \o v.s \o "\""
    [] v.t = "int" -> IntStr(v.i)
    [] v.t = "bool" -> (IF v.b THEN "true" ELSE "false")
    [] v.t = "none" -> "null"
    [] v.t = "list" ->
         "[" \o str_join(", ", [i \in 1..Len(v.items) |-> JsonLiteral(v.items[i])]) \o "]"
    [] v.t = "dict" ->
         "{" \o str_join(", ", [i \in 1..Len(v.entries) |->
                                  JsonLiteral(v.entries[i][1]) \o ": "
                                  \o JsonLiteral(v.entries[i][2])]) \o "}"

\* a leaf as text: a string as it is, anything else as its literal
NativeLeaf(v) == IF v.t = "str" THEN v.s ELSE JsonLiteral(v)

\* C10: each non-mapping leaf is stringified in the literal notation of the
\* format: a boolean true as "true", an array as one value whose text is the
\* array literal of the format.
C10_NativeLiterals ==
  pc = "flattened" =>
    LET leaves == LeafValues(data.entries)
    IN /\ Len(pairs) = Len(leaves)
       /\ \A i \in 1..Len(pairs) : pairs[i][2] = NativeLeaf(leaves[i])

\* C11: every pair a parser emits has a key that is a non-empty string and a
\* value that is a string, for every mapping the decoder can produce, those
\* with an empty-string key or a key that is no string included.
C11_PairTypes ==
  pc = "flattened" =>
    \A i \in 1..Len(pairs) :
      /\ pairs[i][1].t = "str"
      /\ Len(pairs[i][1].s) > 0
      /\ pairs[i][2] \in STRING

\* C12: fallback inference works on the key with every '.' replaced by '_':
\* a key that misses both exact-match lookups gets, for every value, the
\* explanation of that key with its dots replaced by underscores, so that
\* service.timeout is explained by the _TIMEOUT rule like SERVICE_TIMEOUT.
C12_FallbackOnCanonicalKey ==
  (pc = "explained" /\ MissesTable(key)) =>
    /\ explanation = Some(get_explanation(str_replace(key, ".", "_"), value))
    /\ key = "service.timeout" => explanation = Some(get_explanation("SERVICE_TIMEOUT", value))

\* the text after the first '=' of the trimmed line, trimmed on the left
RawValue(raw) ==
  LET t == str_strip(raw)
  IN str_lstrip(SubSeq(t, CharIndex("=", t) + 1, Len(t)))

RECURSIVE ShapedValues(_)
ShapedValues(lines) ==
  IF Len(lines) = 0 THEN <<>>
  ELSE (IF HasShape(lines[1]) THEN <<RawValue(lines[1])>> ELSE <<>>)
       \o ShapedValues(Tail(lines))

\* v without one layer of matching surrounding quotes
Unquoted(v) ==
  IF Len(v) >= 2 /\ CharAt(v, 1) = CharAt(v, Len(v)) /\ CharAt(v, 1) \in {"\"", "'"}
  THEN SubSeq(v, 2, Len(v) - 1)
  ELSE v

IsUrl(v) == startswith(v, "http://") \/ startswith(v, "https://")

\* the places of v where a space is followed by '#'
CommentAt(v) == {i \in 1..(Len(v) - 1) : SubSeq(v, i, i + 1) = " #"}

\* v up to its first ' #', trimmed
BeforeComment(v) ==
  LET first == CHOOSE i \in CommentAt(v) : \A j \in CommentAt(v) : i <= j
  IN str_strip(SubSeq(v, 1, first - 1))

\* C13: for every matched line one layer of matching surrounding quotes is
\* stripped from the raw value first; then, only if the quote-stripped value
\* holds ' #' and does not start with http:// or https://, it is cut at the
\* first ' #' and trimmed. Every emitted value that does not start with
\* http:// or https:// holds no ' #', and a quote-stripped value that starts
\* with http:// or https:// is emitted as it is.
C13_InlineComments ==
  pc = "env_parsed" =>
    LET raws == ShapedValues(str_split(content, "\n"))
    IN /\ Len(pairs) = Len(raws)
       /\ \A i \in 1..Len(pairs) :
            LET q == Unquoted(raws[i])
                v == pairs[i][2]
            IN /\ v = (IF CommentAt(q) # {} /\ ~IsUrl(q) THEN BeforeComment(q) ELSE q)
               /\ ~IsUrl(v) => CommentAt(v) = {}
               /\ IsUrl(q) => v = q

\* a URL with a fragment after a space has been kept, in and out of quotes,
\* and a comment has been cut
C13_Witness ==
  /\ pc = "env_parsed"
  /\ content = "U=https://x.y/p #frag\nU=\"http://h/p #f\"\nK=\"a # b\""
  /\ pairs = << <<"U", "https://x.y/p #frag">>, <<"U", "http://h/p #f">>, <<"K", "a">> >>
====
